---- MODULE Spec2Model ----
(***************************************************************************)
(* Form template builder: the AppProvider store (templates, submissions,   *)
(* localStorage write-through), the AppContent view switch and the         *)
(* TemplateBuilder edit session (working copy, dirty tracking, exit        *)
(* protocol).                                                              *)
(*                                                                         *)
(* Representation.  A JavaScript string that the code trims is a sequence  *)
(* of one-character strings; other strings are TLA+ strings.  Identifiers  *)
(* `template_${Date.now()}`, `section_${Date.now()}`, `field_${Date.now()}`*)
(* are the clock reading they embed (the prefixes keep the three kinds     *)
(* apart, so only readings of one kind can collide).  `undefined` is the   *)
(* string Undefined, or an options value with defined = FALSE.             *)
(***************************************************************************)
EXTENDS Integers, Sequences, FiniteSets, TLC

VARIABLES
    pc,               \* AppProvider: "mount" before the load effect ran, then "ready"
    now,              \* the reading of Date.now() / new Date()
    templates,        \* AppProvider state `templates` (latest value set)
    submissions,      \* AppProvider state `submissions` (latest value set)
    closure,          \* the state values the handlers of the last render closed over
    unrendered,       \* history: provider calls made since the last render
    storage,          \* localStorage: one blob per key
    currentView,      \* AppContent state `currentView`
    selectedTemplate, \* AppContent state `selectedTemplate`
    currentTemplate,  \* TemplateBuilder state: the working copy
    originalTemplate, \* TemplateBuilder state: the snapshot of the session's start
    isDirty,          \* TemplateBuilder state `isDirty`
    isAlertOpen,      \* TemplateBuilder state `isAlertOpen`
    values,           \* FormFiller state `values`
    errors,           \* FormFiller state `errors`
    edits,            \* history: the calls of setCurrentTemplate so far
    lastOp            \* history: the handler that ran last

vars == <<pc, now, templates, submissions, closure, unrendered, storage, currentView,
          selectedTemplate, currentTemplate, originalTemplate, isDirty,
          isAlertOpen, values, errors, edits, lastOp>>

providerVars == <<templates, submissions, closure, unrendered, storage>>
contentVars == <<currentView, selectedTemplate>>
builderVars == <<currentTemplate, originalTemplate, isDirty, isAlertOpen, edits>>
fillerVars == <<values, errors>>

----------------------------------------------------------------------------
(* Bounds of the model *)

MaxClock == 2        \* Date.now() readings are StartClock..MaxClock
MaxEdits == 2        \* calls of setCurrentTemplate in one run at most
MaxBuilderFields == 2 \* fields of a section of a drawn working copy at most
MaxFillerFields == 2 \* fields of a filled template at most
MaxRepoId == 6       \* template ids handed to the provider directly are 1..MaxRepoId
MaxSubmissions == 1  \* submissions stored at most
MaxUnrendered == 2   \* provider calls a caller makes before the next render at most
MaxAppended == 2     \* submissions in the collection at most, where their order is followed

(* Program constants *)

TemplateLimit == 5   \* `newTemplates.length > 5`, `slice(-5)`

StartClock == 1

----------------------------------------------------------------------------
(* Values *)

Undefined == "undefined"

NoOptions == [defined |-> FALSE, list |-> <<>>]

Options(list) == [defined |-> TRUE, list |-> list]

\* `false`, the `value` of a boolean field (the other fields carry '')
JsFalse == "false"

\* the empty object {} of useState<Record<string, any>>({})
NoValues == <<>>

\* selectedTemplate === null, and the state of a TemplateBuilder that is not mounted
NoTemplate == [id |-> 0, name |-> <<>>, sections |-> <<>>, createdAt |-> 0, updatedAt |-> 0]

UntitledTemplate == <<"U","n","t","i","t","l","e","d"," ","T","e","m","p","l","a","t","e">>

Intake == <<"I","n","t","a","k","e">>

IsWhitespace(c) == c = " "

RECURSIVE TrimStart(_)
TrimStart(s) ==
    IF s # <<>> /\ IsWhitespace(Head(s)) THEN TrimStart(Tail(s)) ELSE s

RECURSIVE TrimEnd(_)
TrimEnd(s) ==
    IF s # <<>> /\ IsWhitespace(s[Len(s)]) THEN TrimEnd(SubSeq(s, 1, Len(s) - 1)) ELSE s

\* String.prototype.trim
Trim(s) == TrimEnd(TrimStart(s))

\* Array.prototype.findIndex on ids: the first position holding id, 0 for -1
FindIndex(seq, id) ==
    IF \E i \in 1..Len(seq) : seq[i].id = id
    THEN CHOOSE i \in 1..Len(seq) :
            seq[i].id = id /\ \A j \in 1..(i - 1) : seq[j].id # id
    ELSE 0

\* Array.prototype.slice(-n)
SliceLast(seq, n) ==
    IF Len(seq) <= n THEN seq ELSE SubSeq(seq, Len(seq) - n + 1, Len(seq))

----------------------------------------------------------------------------
(* JSON.stringify / JSON.parse.  A property whose value is undefined is    *)
(* left out of the text; reading a property that the parsed object lacks   *)
(* yields undefined.                                                       *)

FieldKeys == {"id", "type", "label", "labelStyle", "options", "required", "value"}

IsUndefinedProperty(f, k) ==
    \/ k = "labelStyle" /\ f.labelStyle = Undefined
    \/ k = "options" /\ ~f.options.defined

StringifyField(f) ==
    [k \in {k \in FieldKeys : ~IsUndefinedProperty(f, k)} |->
        IF k = "options" THEN f.options.list ELSE f[k]]

ParseField(j) ==
    [id |-> j.id, type |-> j.type, label |-> j.label,
     labelStyle |-> IF "labelStyle" \in DOMAIN j THEN j.labelStyle ELSE Undefined,
     options |-> IF "options" \in DOMAIN j THEN Options(j.options) ELSE NoOptions,
     required |-> j.required, value |-> j.value]

StringifySection(s) ==
    [id |-> s.id, title |-> s.title,
     fields |-> [i \in 1..Len(s.fields) |-> StringifyField(s.fields[i])]]

ParseSection(j) ==
    [id |-> j.id, title |-> j.title,
     fields |-> [i \in 1..Len(j.fields) |-> ParseField(j.fields[i])]]

StringifyTemplate(t) ==
    [id |-> t.id, name |-> t.name,
     sections |-> [i \in 1..Len(t.sections) |-> StringifySection(t.sections[i])],
     createdAt |-> t.createdAt, updatedAt |-> t.updatedAt]

ParseTemplate(j) ==
    [id |-> j.id, name |-> j.name,
     sections |-> [i \in 1..Len(j.sections) |-> ParseSection(j.sections[i])],
     createdAt |-> j.createdAt, updatedAt |-> j.updatedAt]

\* localStorage.getItem(key) === null
Absent == [kind |-> "absent", text |-> <<>>]

\* a stored string JSON.parse throws a SyntaxError on, such as '[{'
Unparseable == [kind |-> "unparseable", text |-> <<>>]

\* the stored string '': getItem returns it, and `if (saved)` takes it for false
EmptyString == [kind |-> "empty", text |-> <<>>]

\* JSON.stringify(templates)
StringifyTemplates(ts) ==
    [kind |-> "json", text |-> [i \in 1..Len(ts) |-> StringifyTemplate(ts[i])]]

\* JSON.parse(savedTemplates)
ParseTemplates(blob) == [i \in 1..Len(blob.text) |-> ParseTemplate(blob.text[i])]

\* JSON.stringify(submissions): a submission has no optional property
StringifySubmissions(ss) == [kind |-> "json", text |-> ss]

\* JSON.parse(savedSubmissions)
ParseSubmissions(blob) == blob.text

----------------------------------------------------------------------------
(* AppProvider (src/src/context/AppContext.tsx) *)

\* removing the slice: the bug a reader of `if (newTemplates.length > 5)` would fear
saveTemplate_newTemplates_NoSlice(ts, template, clock) ==
    LET updatedTemplate == [template EXCEPT !.updatedAt = clock]
        existingIndex == FindIndex(ts, template.id)
    IN  IF existingIndex >= 1
        THEN [ts EXCEPT ![existingIndex] = updatedTemplate]
        ELSE Append(ts, updatedTemplate)

\* an upsert that removes the old entry and appends the new one
saveTemplate_newTemplates_MoveToEnd(ts, template, clock) ==
    LET updatedTemplate == [template EXCEPT !.updatedAt = clock]
        appended == Append(SelectSeq(ts, LAMBDA t : t.id # template.id), updatedTemplate)
    IN  IF Len(appended) > TemplateLimit THEN SliceLast(appended, TemplateLimit) ELSE appended

\* `newTemplates` of saveTemplate, from the `templates` it closed over
saveTemplate_newTemplates(ts, template, clock) ==
    LET updatedTemplate == [template EXCEPT !.updatedAt = clock]
        existingIndex == FindIndex(ts, template.id)
    IN  IF existingIndex >= 1
        THEN [ts EXCEPT ![existingIndex] = updatedTemplate]
        ELSE LET appended == Append(ts, updatedTemplate)
             IN  IF Len(appended) > TemplateLimit
                 THEN SliceLast(appended, TemplateLimit)
                 ELSE appended

\* `newTemplates` of deleteTemplate
deleteTemplate_newTemplates(ts, templateId) ==
    SelectSeq(ts, LAMBDA t : t.id # templateId)

\* writing the collection the handler closed over instead of the new one
saveTemplate_StaleWrite(template) ==
    /\ templates' = saveTemplate_newTemplates(closure.templates, template, now)
    /\ storage' = [storage EXCEPT !.formTemplates = StringifyTemplates(closure.templates)]

\* saveTemplate: setTemplates(newTemplates); localStorage.setItem('formTemplates', ...)
saveTemplate(template) ==
    LET newTemplates == saveTemplate_newTemplates(closure.templates, template, now)
    IN  /\ templates' = newTemplates
        /\ storage' = [storage EXCEPT !.formTemplates = StringifyTemplates(newTemplates)]

\* deleteTemplate: the submissions are not touched
deleteTemplate(templateId) ==
    LET newTemplates == deleteTemplate_newTemplates(closure.templates, templateId)
    IN  /\ templates' = newTemplates
        /\ storage' = [storage EXCEPT !.formTemplates = StringifyTemplates(newTemplates)]
        /\ submissions' = submissions

\* a saveSubmission that puts the new record first
saveSubmission_Prepend(submission) ==
    LET newSubmissions == <<submission>> \o closure.submissions
    IN  /\ submissions' = newSubmissions
        /\ storage' = [storage EXCEPT !.formSubmissions = StringifySubmissions(newSubmissions)]

\* saveSubmission
saveSubmission(submission) ==
    LET newSubmissions == Append(closure.submissions, submission)
    IN  /\ submissions' = newSubmissions
        /\ storage' = [storage EXCEPT !.formSubmissions = StringifySubmissions(newSubmissions)]

\* the mount effect: each key is read once; an absent or empty string leaves
\* the state empty; JSON.parse is not guarded, so a string it cannot parse
\* throws out of the effect and the tree is unmounted, after setTemplates if
\* the string that threw is the second one
LoadEffect ==
    /\ pc = "mount"
    /\ pc' = IF Unparseable \in {storage.formTemplates, storage.formSubmissions}
             THEN "crashed" ELSE "ready"
    /\ templates' = IF storage.formTemplates.kind = "json"
                    THEN ParseTemplates(storage.formTemplates) ELSE templates
    /\ submissions' = IF /\ storage.formSubmissions.kind = "json"
                         /\ storage.formTemplates # Unparseable
                      THEN ParseSubmissions(storage.formSubmissions) ELSE submissions
    /\ closure' = [templates |-> templates', submissions |-> submissions']
    /\ lastOp' = "load"
    /\ UNCHANGED <<now, unrendered, storage, contentVars, builderVars, fillerVars>>

\* a re-render: the handlers close over the state as last set
Render ==
    /\ pc = "ready"
    /\ unrendered > 0
    /\ closure' = [templates |-> templates, submissions |-> submissions]
    /\ unrendered' = 0
    /\ UNCHANGED <<pc, now, templates, submissions, storage, contentVars, builderVars, lastOp, fillerVars>>

----------------------------------------------------------------------------
(* The provider driven through its context value: any caller, any argument *)

SampleField ==
    [id |-> 0, type |-> "text", label |-> "Name", labelStyle |-> Undefined,
     options |-> NoOptions, required |-> TRUE, value |-> ""]

SampleSection == [id |-> 0, title |-> "Basics", fields |-> <<SampleField>>]

RepoTemplate(id, name) ==
    [id |-> id, name |-> name, sections |-> <<SampleSection>>,
     createdAt |-> 0, updatedAt |-> 0]

RepoIds == 1..MaxRepoId

\* the names a caller gives: the first template is also saved renamed
RepoNames(id) == IF id = 1 THEN {Intake, UntitledTemplate} ELSE {Intake}

\* the ids of a collection
Ids(ts) == {ts[i].id : i \in 1..Len(ts)}

\* a caller creates templates with growing ids, as `template_${Date.now()}` does
NextId(ts) == IF ts = <<>> THEN 1 ELSE 1 + CHOOSE m \in Ids(ts) : \A i \in Ids(ts) : i <= m

\* what a caller hands to saveTemplate: a saved template edited, or a new one
RepoTemplates(ts) ==
    UNION {{RepoTemplate(id, name) : name \in RepoNames(id)} :
            id \in (Ids(ts) \cup {NextId(ts)}) \cap RepoIds}

\* a collection saved by an earlier run: ids 1..n, in order
StoredTemplates(n) == [i \in 1..n |-> RepoTemplate(i, Intake)]

SampleData == [fieldId \in {0} |-> "Ada"]

RepoSubmission(templateId, clock) ==
    [templateId |-> templateId, data |-> SampleData, submittedAt |-> clock]

SaveTemplateCall(t) ==
    /\ pc = "ready"
    /\ unrendered < MaxUnrendered
    /\ saveTemplate(t)
    /\ unrendered' = unrendered + 1
    /\ lastOp' = "saveTemplate"
    /\ UNCHANGED <<pc, now, submissions, closure, contentVars, builderVars, fillerVars>>

CallSaveTemplate == \E t \in RepoTemplates(closure.templates) : SaveTemplateCall(t)

DeleteTemplateCall(id) ==
    /\ pc = "ready"
    /\ unrendered < MaxUnrendered
    /\ deleteTemplate(id)
    /\ unrendered' = unrendered + 1
    /\ lastOp' = "deleteTemplate"
    /\ UNCHANGED <<pc, now, closure, contentVars, builderVars, fillerVars>>

CallDeleteTemplate == \E id \in RepoIds : DeleteTemplateCall(id)

\* a submission is made in the filler, which opens on a saved template
SaveSubmissionCall(id, limit) ==
    /\ pc = "ready"
    /\ unrendered < MaxUnrendered
    /\ Len(closure.submissions) < limit
    /\ saveSubmission(RepoSubmission(id, now))
    /\ unrendered' = unrendered + 1
    /\ lastOp' = "saveSubmission"
    /\ UNCHANGED <<pc, now, templates, closure, contentVars, builderVars, fillerVars>>

CallSaveSubmission ==
    \E id \in Ids(closure.templates) \cap 1..2 : SaveSubmissionCall(id, MaxSubmissions)

InitStore(templateBlobs, submissionBlobs) ==
    /\ pc = "mount"
    /\ now = StartClock
    /\ templates = <<>>
    /\ submissions = <<>>
    /\ closure = [templates |-> <<>>, submissions |-> <<>>]
    /\ unrendered = 0
    /\ storage \in [formTemplates : templateBlobs, formSubmissions : submissionBlobs]
    /\ currentView = "list"
    /\ selectedTemplate = NoTemplate
    /\ currentTemplate = NoTemplate
    /\ originalTemplate = NoTemplate
    /\ isDirty = FALSE
    /\ isAlertOpen = FALSE
    /\ values = NoValues
    /\ errors = NoValues
    /\ edits = 0
    /\ lastOp = "none"

\* what an earlier run, or another writer of the two keys, left in storage
InitRepo ==
    InitStore({Absent, EmptyString, Unparseable, StringifyTemplates(StoredTemplates(TemplateLimit))},
              {Absent, EmptyString, Unparseable})

NextRepo ==
    \/ LoadEffect
    \/ Render
    \/ CallSaveTemplate
    \/ CallDeleteTemplate
    \/ CallSaveSubmission

SpecRepo == InitRepo /\ [][NextRepo]_vars

----------------------------------------------------------------------------
(* The submission collection over a run: two templates are saved, an       *)
(* earlier run may have left a submission, forms are submitted, templates  *)
(* are saved again and deleted.                                            *)

\* the submission an earlier run left
StoredSubmission == [RepoSubmission(2, StartClock) EXCEPT !.submittedAt = 0]

CallSubmit == \E id \in Ids(closure.templates) : SaveSubmissionCall(id, MaxAppended)

\* a saved template is saved again, under either name
CallSaveAgain ==
    \E i \in 1..Len(closure.templates), name \in {Intake, UntitledTemplate} :
        SaveTemplateCall([closure.templates[i] EXCEPT !.name = name])

InitSubmissions ==
    InitStore({StringifyTemplates(StoredTemplates(2))},
              {Absent, StringifySubmissions(<<StoredSubmission>>)})

NextSubmissions ==
    \/ LoadEffect
    \/ Render
    \/ CallSubmit
    \/ CallSaveAgain
    \/ CallDeleteTemplate

SpecSubmissions == InitSubmissions /\ [][NextSubmissions]_vars

----------------------------------------------------------------------------
(* TemplateBuilder (src/src/components/TemplateBuilder.tsx, lines 1-283),  *)
(* with FieldTypeSelector, SectionEditor and DraggableField: the updaters  *)
(* handed to setCurrentTemplate, as functions of the working copy `prev`.  *)

\* a property of a Partial<FormField>, or the fallback when it is undefined
Get(partial, k, fallback) == IF k \in DOMAIN partial THEN partial[k] ELSE fallback

\* Array.prototype.map over the sections
MapSections(t, F(_)) ==
    [t EXCEPT !.sections = [i \in 1..Len(t.sections) |-> F(t.sections[i])]]

\* a validity that asks for a name only
isTemplateValid_NameOnly(t) == Trim(t.name) # <<>>

isTemplateValid(t) ==
    /\ Trim(t.name) # <<>>
    /\ Len(t.sections) > 0
    /\ \E i \in 1..Len(t.sections) : Len(t.sections[i].fields) > 0

\* a dirty flag that every modification sets and nothing clears
dirtyEffect_Sticky(current, original) == TRUE

\* the effect on [currentTemplate, originalTemplate]: the value it sets isDirty to
dirtyEffect(current, original) ==
    StringifyTemplate(current) # StringifyTemplate(original)

updateTemplateName(prev, name) == [prev EXCEPT !.name = name]

newSection(clock) == [id |-> clock, title |-> "New Section", fields |-> <<>>]

addSection(prev, clock) ==
    [prev EXCEPT !.sections = Append(prev.sections, newSection(clock))]

updateSection(prev, updatedSection) ==
    MapSections(prev, LAMBDA section :
        IF section.id = updatedSection.id THEN updatedSection ELSE section)

deleteSection(prev, sectionId) ==
    [prev EXCEPT !.sections = SelectSeq(prev.sections, LAMBDA section : section.id # sectionId)]

\* `completeField` of addFieldToSection
completeField(field, clock) ==
    [id |-> Get(field, "id", clock),
     type |-> Get(field, "type", "text"),
     label |-> Get(field, "label", "New Field"),
     labelStyle |-> Get(field, "labelStyle", Undefined),
     options |-> Get(field, "options", NoOptions),
     required |-> Get(field, "required", FALSE),
     value |-> IF Get(field, "type", Undefined) = "boolean" THEN JsFalse ELSE ""]

\* an addFieldToSection that makes the section it does not find
addFieldToSection_CreateSection(prev, sectionId, field, clock) ==
    IF \E i \in 1..Len(prev.sections) : prev.sections[i].id = sectionId
    THEN MapSections(prev, LAMBDA section :
            IF section.id = sectionId
            THEN [section EXCEPT !.fields = Append(section.fields, completeField(field, clock))]
            ELSE section)
    ELSE [prev EXCEPT !.sections =
            Append(prev.sections,
                   [id |-> sectionId, title |-> "New Section",
                    fields |-> <<completeField(field, clock)>>])]

addFieldToSection(prev, sectionId, field, clock) ==
    MapSections(prev, LAMBDA section :
        IF section.id = sectionId
        THEN [section EXCEPT !.fields = Append(section.fields, completeField(field, clock))]
        ELSE section)

\* { ...field, ...updatedProperties }
Merge(field, updatedProperties) ==
    [k \in FieldKeys |->
        IF k \in DOMAIN updatedProperties THEN updatedProperties[k] ELSE field[k]]

updateFieldInSection(prev, sectionId, fieldId, updatedProperties) ==
    MapSections(prev, LAMBDA section :
        IF section.id = sectionId
        THEN [section EXCEPT !.fields =
                [i \in 1..Len(section.fields) |->
                    IF section.fields[i].id = fieldId
                    THEN Merge(section.fields[i], updatedProperties)
                    ELSE section.fields[i]]]
        ELSE section)

\* SectionEditor.updateSectionTitle: the section as rendered, with the new title
updateSectionTitle(prev, section, title) ==
    updateSection(prev, [section EXCEPT !.title = title])

\* SectionEditor.deleteField: the section as rendered, without the field
deleteField(prev, section, fieldId) ==
    updateSection(prev,
        [section EXCEPT !.fields = SelectSeq(section.fields, LAMBDA field : field.id # fieldId)])

\* the elements at the 0-based positions from..to-1, both clamped to the array
JsSlice(seq, from, to) ==
    LET lo == IF from > Len(seq) THEN Len(seq) ELSE from
        hi == IF to > Len(seq) THEN Len(seq) ELSE to
    IN  IF hi <= lo THEN <<>> ELSE SubSeq(seq, lo + 1, hi)

\* an array element that is `undefined`
UndefinedField ==
    [id |-> -1, type |-> Undefined, label |-> Undefined, labelStyle |-> Undefined,
     options |-> NoOptions, required |-> FALSE, value |-> Undefined]

\* a move that inserts at the destination before it removes the source
Reorder_InsertFirst(fields, sourceIndex, destinationIndex) ==
    LET reorderedField == IF sourceIndex < Len(fields)
                          THEN fields[sourceIndex + 1] ELSE UndefinedField
        inserted == JsSlice(fields, 0, destinationIndex) \o <<reorderedField>>
                    \o JsSlice(fields, destinationIndex, Len(fields))
        removed == IF destinationIndex <= sourceIndex THEN sourceIndex + 1 ELSE sourceIndex
    IN  JsSlice(inserted, 0, removed) \o JsSlice(inserted, removed + 1, Len(inserted))

\* newFields of handleDragEnd (indices 0-based and not negative):
\* const [reorderedField] = newFields.splice(source.index, 1);
\* newFields.splice(destination.index, 0, reorderedField)
Reorder(fields, sourceIndex, destinationIndex) ==
    LET reorderedField == IF sourceIndex < Len(fields)
                          THEN fields[sourceIndex + 1] ELSE UndefinedField
        without == JsSlice(fields, 0, sourceIndex)
                   \o JsSlice(fields, sourceIndex + 1, Len(fields))
    IN  JsSlice(without, 0, destinationIndex) \o <<reorderedField>>
        \o JsSlice(without, destinationIndex, Len(without))

\* Array.prototype.find on section ids: the first section with the id
FindSection(t, sectionId) == t.sections[FindIndex(t.sections, sectionId)]

\* the earlier onDragEnd: the destination's droppableId is not looked at
handleDragEnd_IgnoreDestination(current, sourceId, sourceIndex, destinationId, destinationIndex) ==
    IF FindIndex(current.sections, sourceId) >= 1
    THEN LET section == FindSection(current, sourceId)
         IN  updateSection(current,
                [section EXCEPT !.fields = Reorder(section.fields, sourceIndex, destinationIndex)])
    ELSE current

\* the working copy after handleDragEnd (result.destination is not null)
handleDragEnd(current, sourceId, sourceIndex, destinationId, destinationIndex) ==
    IF sourceId = destinationId /\ FindIndex(current.sections, sourceId) >= 1
    THEN LET section == FindSection(current, sourceId)
         IN  updateSection(current,
                [section EXCEPT !.fields = Reorder(section.fields, sourceIndex, destinationIndex)])
    ELSE current

----------------------------------------------------------------------------
(* FieldTypeSelector.handleAddField: prompt(), split(',') and trim()       *)

\* String.prototype.split(','): the pieces between the commas
RECURSIVE Split(_, _)
Split(s, piece) ==
    IF s = <<>> THEN <<piece>>
    ELSE IF Head(s) = "," THEN <<piece>> \o Split(Tail(s), <<>>)
         ELSE Split(Tail(s), Append(piece, Head(s)))

\* options.split(',').map(opt => opt.trim()).filter(Boolean): the empty
\* pieces are dropped
SplitOptions_FilterBoolean(text) ==
    LET pieces == Split(text, <<>>)
    IN  SelectSeq([i \in 1..Len(pieces) |-> Trim(pieces[i])], LAMBDA opt : opt # <<>>)

\* options.split(',').map(opt => opt.trim())
SplitOptions(text) ==
    LET pieces == Split(text, <<>>) IN [i \in 1..Len(pieces) |-> Trim(pieces[i])]

FieldTypes == {"label", "text", "number", "boolean", "enum"}

DefaultLabel(type) ==
    CASE type = "label" -> "New Label"
      [] type = "text" -> "New text field"
      [] type = "number" -> "New number field"
      [] type = "boolean" -> "New boolean field"
      [] type = "enum" -> "New enum field"

\* prompt() returned null (cancelled)
PromptCancelled == <<"<null>">>

\* the field handed to onAddField; the empty function when handleAddField returns early
handleAddField(type, clock, answer) ==
    LET baseField == [id |-> clock, type |-> type, label |-> DefaultLabel(type),
                      required |-> type # "label"]
    IN  IF type = "label" THEN baseField @@ [labelStyle |-> "h2"]
        ELSE IF type = "enum"
             THEN IF answer # PromptCancelled /\ answer # <<>>
                  THEN baseField @@ [options |-> Options(SplitOptions(answer))]
                  ELSE <<>>
             ELSE baseField

\* an onAddField that needs a section to be there
onAddField_NoSection(current, field, clock) ==
    IF Len(current.sections) > 0
    THEN addFieldToSection(current, current.sections[Len(current.sections)].id, field, clock)
    ELSE current

\* the onAddField prop: the last section is the target; without one a section is made
onAddField(current, field, clock) ==
    IF Len(current.sections) > 0
    THEN addFieldToSection(current, current.sections[Len(current.sections)].id, field, clock)
    ELSE addFieldToSection(addSection(current, clock), clock, field, clock)

----------------------------------------------------------------------------
(* The application driven through its views.  A handler runs to its end    *)
(* and React renders before the next event, so each action ends with the   *)
(* render: the handlers close over the new state, the isDirty effect ran.  *)

Rendered ==
    /\ closure' = [templates |-> templates', submissions |-> submissions']
    /\ unrendered' = 0

\* TemplateBuilder mounts on `template`: the useState initial values, then the effect
Mount(template) ==
    /\ currentTemplate' = template
    /\ originalTemplate' = template
    /\ isDirty' = dirtyEffect(template, template)
    /\ isAlertOpen' = FALSE
    /\ edits' = edits

\* TemplateBuilder is not rendered: its state is gone
Unmount ==
    /\ currentTemplate' = NoTemplate
    /\ originalTemplate' = NoTemplate
    /\ isDirty' = FALSE
    /\ isAlertOpen' = FALSE
    /\ edits' = edits

OnList == pc = "ready" /\ currentView = "list"

\* the builder's controls; the open AlertDialog is modal
InBuilder == pc = "ready" /\ currentView = "builder" /\ ~isAlertOpen

InAlert == pc = "ready" /\ currentView = "builder" /\ isAlertOpen

Tick ==
    /\ now < MaxClock
    /\ now' = now + 1
    /\ UNCHANGED <<pc, providerVars, contentVars, builderVars, lastOp, fillerVars>>

\* AppContent.createNewTemplate's newTemplate
newTemplate(clock) ==
    [id |-> clock, name |-> UntitledTemplate,
     sections |-> <<[id |-> clock, title |-> "Section 1", fields |-> <<>>]>>,
     createdAt |-> clock, updatedAt |-> clock]

\* a Create New Template button that is never disabled
CreateNewTemplate_Always ==
    /\ OnList
    /\ selectedTemplate' = newTemplate(now)
    /\ currentView' = "builder"
    /\ Mount(newTemplate(now))
    /\ lastOp' = "createNewTemplate"
    /\ UNCHANGED <<pc, now, providerVars, fillerVars>>

\* TemplateList: Create New Template is disabled once 5 templates are saved
CreateNewTemplate ==
    /\ OnList
    /\ Len(templates) < TemplateLimit
    /\ selectedTemplate' = newTemplate(now)
    /\ currentView' = "builder"
    /\ Mount(newTemplate(now))
    /\ lastOp' = "createNewTemplate"
    /\ UNCHANGED <<pc, now, providerVars, fillerVars>>

EditTemplate ==
    \E i \in 1..Len(templates) :
        /\ OnList
            /\ selectedTemplate' = templates[i]
        /\ currentView' = "builder"
        /\ Mount(templates[i])
        /\ lastOp' = "editTemplate"
        /\ UNCHANGED <<pc, now, providerVars, fillerVars>>

FillForm ==
    \E i \in 1..Len(templates) :
        /\ OnList
        /\ selectedTemplate' = templates[i]
        /\ currentView' = "filler"
        /\ values' = NoValues
        /\ errors' = NoValues
        /\ lastOp' = "fillForm"
        /\ UNCHANGED <<pc, now, providerVars, builderVars>>

\* FormFiller's Back to Templates
FillerBack ==
    /\ pc = "ready"
    /\ currentView = "filler"
    /\ currentView' = "list"
    /\ values' = NoValues
    /\ errors' = NoValues
    /\ lastOp' = "fillerBack"
    /\ UNCHANGED <<pc, now, providerVars, selectedTemplate, builderVars>>

\* TemplateList.handleDelete, the confirm() answered with OK
HandleDelete ==
    \E i \in 1..Len(templates) :
        /\ OnList
        /\ deleteTemplate(templates[i].id)
        /\ Rendered
        /\ lastOp' = "deleteTemplate"
        /\ UNCHANGED <<pc, now, contentVars, builderVars, fillerVars>>

\* SectionEditor's render reads field.id of every field: undefined throws
RenderThrows(t) ==
    \E i \in 1..Len(t.sections) :
        \E j \in 1..Len(t.sections[i].fields) : t.sections[i].fields[j] = UndefinedField

\* setCurrentTemplate(updater), the render and the isDirty effect; a render
\* that throws takes the whole tree down (there is no error boundary)
SetCurrentTemplate(next, op) ==
    /\ InBuilder
    /\ edits < MaxEdits
    /\ edits' = edits + 1
    /\ currentTemplate' = next
    /\ pc' = IF RenderThrows(next) THEN "crashed" ELSE pc
    /\ isDirty' = IF RenderThrows(next) THEN isDirty ELSE dirtyEffect(next, originalTemplate)
    /\ lastOp' = op
    /\ UNCHANGED <<now, providerVars, contentVars, originalTemplate, isAlertOpen, fillerVars>>

\* what the user types into the name input
NameInputs == {<<>>, <<" ">>, Intake}

UpdateTemplateName ==
    \E name \in NameInputs :
        SetCurrentTemplate(updateTemplateName(currentTemplate, name), "updateTemplateName")

AddSection ==
    /\ SetCurrentTemplate(addSection(currentTemplate, now), "addSection")

TitleInputs == {"Basics"}

UpdateSectionTitle ==
    \E i \in 1..Len(currentTemplate.sections), title \in TitleInputs :
        SetCurrentTemplate(updateSectionTitle(currentTemplate, currentTemplate.sections[i], title),
                           "updateSectionTitle")

DeleteSection ==
    \E i \in 1..Len(currentTemplate.sections) :
        SetCurrentTemplate(deleteSection(currentTemplate, currentTemplate.sections[i].id),
                           "deleteSection")

\* what the user answers to prompt('Enter options separated by commas:')
PromptAnswers == {PromptCancelled, <<>>, <<"a", ",", " ", "b">>}

\* the field type the user adds from the sidebar
AddedTypes == {"enum"}

\* a click in FieldTypeSelector; nothing is set when handleAddField returns early
OnAddField ==
    \E type \in AddedTypes, answer \in PromptAnswers :
        LET field == handleAddField(type, now, answer)
        IN  /\ type # "enum" => answer = PromptCancelled
            /\ field # <<>>
            /\ SetCurrentTemplate(onAddField(currentTemplate, field, now), "onAddField")

\* DraggableField: the Required switch
UpdateField ==
    \E i \in 1..Len(currentTemplate.sections) :
        \E j \in 1..Len(currentTemplate.sections[i].fields) :
            LET section == currentTemplate.sections[i]
                field == section.fields[j]
            IN  SetCurrentTemplate(
                    updateFieldInSection(currentTemplate, section.id, field.id,
                                         [required |-> ~field.required]),
                    "updateFieldInSection")

DeleteField ==
    \E i \in 1..Len(currentTemplate.sections) :
        \E j \in 1..Len(currentTemplate.sections[i].fields) :
            LET section == currentTemplate.sections[i]
            IN  SetCurrentTemplate(deleteField(currentTemplate, section, section.fields[j].id),
                                   "deleteField")

\* a drop: the gesture layer names a rendered field and a slot of a rendered section
HandleDragEnd ==
    \E i \in 1..Len(currentTemplate.sections), k \in 1..Len(currentTemplate.sections) :
        \E from \in 0..(Len(currentTemplate.sections[i].fields) - 1) :
            \E to \in 0..(Len(currentTemplate.sections[k].fields) - (IF i = k THEN 1 ELSE 0)) :
                SetCurrentTemplate(
                    handleDragEnd(currentTemplate, currentTemplate.sections[i].id, from,
                                  currentTemplate.sections[k].id, to),
                    "handleDragEnd")

\* the second TemplateBuilder's handleSave: no validity check
handleSave_store_Unchecked == saveTemplate(currentTemplate)

\* handleSave, the provider's part: saveTemplate(currentTemplate) unless invalid
handleSave_store ==
    IF isTemplateValid(currentTemplate)
    THEN saveTemplate(currentTemplate)
    ELSE UNCHANGED <<templates, storage>>

\* a handleSave that saves and stays in the builder
handleSave_view_Stay(view) == view

\* handleSave, the view's part: onSave(currentTemplate) is setCurrentView('list')
handleSave_view(view) ==
    IF isTemplateValid(currentTemplate) THEN "list" ELSE view

\* leaving without asking
handleBack_NoConfirm(dirty) == [alert |-> FALSE, view |-> "list"]

\* handleBack: the dialog when dirty, onBack() otherwise
handleBack(dirty) ==
    IF dirty THEN [alert |-> TRUE, view |-> "builder"]
    ELSE [alert |-> FALSE, view |-> "list"]

\* the builder's state after a handler that may have left the builder
AfterExit(alert) ==
    IF currentView' = "builder"
    THEN /\ isAlertOpen' = alert
         /\ UNCHANGED <<currentTemplate, originalTemplate, isDirty, edits>>
    ELSE Unmount

\* the Save Template button, disabled while the working copy is invalid
HandleSave ==
    /\ InBuilder
    /\ isTemplateValid(currentTemplate)
    /\ handleSave_store
    /\ currentView' = handleSave_view(currentView)
    /\ AfterExit(FALSE)
    /\ lastOp' = "handleSave"
    /\ UNCHANGED <<pc, now, submissions, selectedTemplate, fillerVars>>
    /\ Rendered

HandleBack ==
    /\ InBuilder
    /\ currentView' = handleBack(isDirty).view
    /\ AfterExit(handleBack(isDirty).alert)
    /\ lastOp' = "handleBack"
    /\ UNCHANGED <<pc, now, providerVars, selectedTemplate, fillerVars>>

\* AlertDialogCancel: onOpenChange(false)
AlertCancel ==
    /\ InAlert
    /\ isAlertOpen' = FALSE
    /\ lastOp' = "alertCancel"
    /\ UNCHANGED <<pc, now, providerVars, contentVars, currentTemplate, originalTemplate, isDirty, edits, fillerVars>>

\* Discard & Exit: onClick={onBack}
DiscardAndExit ==
    /\ InAlert
    /\ currentView' = "list"
    /\ Unmount
    /\ lastOp' = "discardAndExit"
    /\ UNCHANGED <<pc, now, providerVars, selectedTemplate, fillerVars>>

\* Save & Exit: onClick={() => { handleSave(); onBack(); }}
SaveAndExit ==
    /\ InAlert
    /\ handleSave_store
    /\ currentView' = "list"
    /\ Unmount
    /\ lastOp' = "saveAndExit"
    /\ UNCHANGED <<pc, now, submissions, selectedTemplate, fillerVars>>
    /\ Rendered

OtherField == [SampleField EXCEPT !.id = -1, !.label = "Email", !.required = FALSE]

\* a template of two fields saved by an earlier run
StoredTemplate ==
    [RepoTemplate(0, Intake) EXCEPT
        !.sections = <<[SampleSection EXCEPT !.fields = <<SampleField, OtherField>>]>>]

\* what an earlier run left in storage: nothing, or one template
Init == InitStore({Absent, StringifyTemplates(<<StoredTemplate>>)}, {Absent})

Next ==
    \/ LoadEffect
    \/ Tick
    \/ CreateNewTemplate
    \/ EditTemplate
    \/ FillForm
    \/ FillerBack
    \/ HandleDelete
    \/ UpdateTemplateName
    \/ AddSection
    \/ UpdateSectionTitle
    \/ DeleteSection
    \/ OnAddField
    \/ UpdateField
    \/ DeleteField
    \/ HandleDragEnd
    \/ HandleSave
    \/ HandleBack
    \/ AlertCancel
    \/ DiscardAndExit
    \/ SaveAndExit

Spec == Init /\ [][Next]_vars

----------------------------------------------------------------------------
(* The application at the limit of the collection: earlier runs left four  *)
(* or five templates, made at clock readings before this run's.  The run   *)
(* is followed at one clock reading, through the list and the builder's    *)
(* add field, save, back and dialog controls.                              *)

\* n templates of one field, with the ids 1 - n .. 0
StoredList(n) ==
    [i \in 1..n |-> [RepoTemplate(i - n, Intake) EXCEPT !.createdAt = i - n, !.updatedAt = i - n]]

InitLimit ==
    InitStore({StringifyTemplates(StoredList(TemplateLimit - 1)),
               StringifyTemplates(StoredList(TemplateLimit))}, {Absent})

NextLimit ==
    \/ LoadEffect
    \/ CreateNewTemplate
    \/ EditTemplate
    \/ HandleDelete
    \/ OnAddField
    \/ HandleSave
    \/ HandleBack
    \/ DiscardAndExit
    \/ SaveAndExit

SpecLimit == InitLimit /\ [][NextLimit]_vars

----------------------------------------------------------------------------
(* The builder's updaters applied in the middle of an edit session: the    *)
(* session was opened on a saved template and the working copy has been    *)
(* edited to any of BuilderTemplates.  addFieldToSection and handleDragEnd *)
(* are called with every section id and index, also ones no rendered       *)
(* element stands for.                                                     *)

BuilderField(s, k) == [SampleField EXCEPT !.id = 10 * (s + 1) + k]

\* section s of a working copy, with n fields
BuilderSection(s, n) ==
    [id |-> 10 + s, title |-> "Basics", fields |-> [k \in 1..n |-> BuilderField(s, k)]]

BuilderTemplate(sections) == [RepoTemplate(0, Intake) EXCEPT !.sections = sections]

\* working copies of no section, of one section and of two sections
BuilderTemplates ==
    {BuilderTemplate(<<>>)}
    \cup {BuilderTemplate(<<BuilderSection(1, n)>>) : n \in 0..MaxBuilderFields}
    \cup {BuilderTemplate(<<BuilderSection(1, n), BuilderSection(2, m)>>) :
            n \in 0..MaxBuilderFields, m \in 0..MaxBuilderFields}

\* the saved template the session was opened on
OpenedTemplate == BuilderTemplate(<<BuilderSection(1, 1)>>)

\* the section ids a caller names: the rendered sections' and one of no section
SectionIdInputs == {BuilderSection(1, 0).id, BuilderSection(2, 0).id, 0}

\* a field spec that names its type only
BareSpecs == {[type |-> type] : type \in {"label", "text"}}

\* the specs handleAddField builds, one per field type
SidebarSpecs(clock) ==
    {handleAddField(type, clock, IF type = "enum" THEN <<"a", ",", " ", "b">> ELSE PromptCancelled) :
        type \in FieldTypes}

AddFieldToSectionCall(sectionId, field) ==
    SetCurrentTemplate(addFieldToSection(currentTemplate, sectionId, field, now),
                       IF sectionId \in Ids(currentTemplate.sections)
                       THEN "addFieldToSection" ELSE "addFieldToSection: no section")

CallAddFieldToSection ==
    \E sectionId \in SectionIdInputs, field \in BareSpecs \cup SidebarSpecs(now) :
        AddFieldToSectionCall(sectionId, field)

\* a click on a field type in the sidebar
ClickFieldType(type) ==
    \E field \in {handleAddField(type, now, answer) : answer \in PromptAnswers} :
        /\ type # "enum" => field = handleAddField(type, now, PromptCancelled)
        /\ field # <<>>
        /\ SetCurrentTemplate(onAddField(currentTemplate, field, now), "onAddField")

CallOnAddField == \E type \in FieldTypes : ClickFieldType(type)

\* the indices a drop result may carry for a section: its fields' and two past the end
IndexInputs(t, sectionId) == 0..(Len(FindSection(t, sectionId).fields) + 1)

\* the 0-based positions of the fields of a section
InBounds(t, sectionId) == 0..(Len(FindSection(t, sectionId).fields) - 1)

\* what kind of drop a result is
DropKind(t, sourceId, sourceIndex, destinationId, destinationIndex) ==
    IF sourceId # destinationId THEN "handleDragEnd: other section"
    ELSE IF sourceIndex \notin InBounds(t, sourceId) \/ destinationIndex \notin InBounds(t, sourceId)
         THEN "handleDragEnd: out of bounds"
         ELSE "handleDragEnd"

DragEnd(sourceId, sourceIndex, destinationId, destinationIndex) ==
    SetCurrentTemplate(
        handleDragEnd(currentTemplate, sourceId, sourceIndex, destinationId, destinationIndex),
        DropKind(currentTemplate, sourceId, sourceIndex, destinationId, destinationIndex))

CallHandleDragEnd ==
    \E sourceId \in Ids(currentTemplate.sections), destinationId \in Ids(currentTemplate.sections) :
        \E sourceIndex \in IndexInputs(currentTemplate, sourceId),
           destinationIndex \in IndexInputs(currentTemplate, destinationId) :
            DragEnd(sourceId, sourceIndex, destinationId, destinationIndex)

\* what the user leaves in the options input of an enum field: nothing, a
\* comma, a single option
OptionTexts == {<<>>, <<",">>, <<"a">>}

\* DraggableField: the options input of an enum field
EditOptions(sectionId, fieldId, text) ==
    SetCurrentTemplate(
        updateFieldInSection(currentTemplate, sectionId, fieldId,
                             [options |-> Options(SplitOptions(text))]),
        "editOptions")

CallEditOptions ==
    \E i \in 1..Len(currentTemplate.sections) :
        \E j \in 1..Len(currentTemplate.sections[i].fields) :
            LET section == currentTemplate.sections[i]
            IN  /\ section.fields[j].type = "enum"
                /\ \E text \in OptionTexts : EditOptions(section.id, section.fields[j].id, text)

InitBuilder ==
    /\ pc = "ready"
    /\ now = StartClock
    /\ templates = <<OpenedTemplate>>
    /\ submissions = <<>>
    /\ closure = [templates |-> templates, submissions |-> submissions]
    /\ unrendered = 0
    /\ storage = [formTemplates |-> StringifyTemplates(templates), formSubmissions |-> Absent]
    /\ currentView = "builder"
    /\ selectedTemplate = OpenedTemplate
    /\ originalTemplate = OpenedTemplate
    /\ currentTemplate \in BuilderTemplates
    /\ isDirty = dirtyEffect(currentTemplate, originalTemplate)
    /\ isAlertOpen = FALSE
    /\ values = NoValues
    /\ errors = NoValues
    /\ edits = 0
    /\ lastOp = "none"

NextBuilder ==
    \/ CallAddFieldToSection
    \/ CallOnAddField
    \/ CallHandleDragEnd
    \/ CallEditOptions

SpecBuilder == InitBuilder /\ [][NextBuilder]_vars

----------------------------------------------------------------------------
(* Reordering in a session opened by Create New Template: fields have been *)
(* added from the sidebar, then sections and fields are added and fields   *)
(* are dragged, with the indices the gesture layer gives.                  *)

\* the working copies of ts, and those with one more field from the sidebar
WithOneMoreField(ts) ==
    ts \cup {onAddField(t, handleAddField(type, StartClock, PromptCancelled), StartClock) :
                t \in ts, type \in {"label", "text"}}

\* the new template with no field, one field or two fields
ReorderTemplates == WithOneMoreField(WithOneMoreField({newTemplate(StartClock)}))

InitReorder ==
    /\ pc = "ready"
    /\ now = StartClock
    /\ templates = <<>>
    /\ submissions = <<>>
    /\ closure = [templates |-> templates, submissions |-> submissions]
    /\ unrendered = 0
    /\ storage = [formTemplates |-> Absent, formSubmissions |-> Absent]
    /\ currentView = "builder"
    /\ selectedTemplate = newTemplate(StartClock)
    /\ originalTemplate = newTemplate(StartClock)
    /\ currentTemplate \in ReorderTemplates
    /\ isDirty = dirtyEffect(currentTemplate, originalTemplate)
    /\ isAlertOpen = FALSE
    /\ values = NoValues
    /\ errors = NoValues
    /\ edits = 0
    /\ lastOp = "onAddField"

NextReorder ==
    \/ Tick
    \/ AddSection
    \/ CallOnAddField
    \/ HandleDragEnd

SpecReorder == InitReorder /\ [][NextReorder]_vars

----------------------------------------------------------------------------
(* FormFiller (src/unnamed/part_003) with the inputs of FormRenderer       *)
(* (src/unnamed/part_005).  A value of the `values` record is a string (a  *)
(* sequence of characters) or a boolean; a field without an entry reads as *)
(* undefined.                                                              *)

JsString(text) == [kind |-> "string", text |-> text, bool |-> FALSE]

JsBoolean(bool) == [kind |-> "boolean", text |-> <<>>, bool |-> bool]

JsUndefined == [kind |-> "undefined", text |-> <<>>, bool |-> FALSE]

\* values[field.id]
ValueOf(vs, fieldId) == IF fieldId \in DOMAIN vs THEN vs[fieldId] ELSE JsUndefined

\* ToBoolean: what `!value` and `value &&` look at
Truthy(value) ==
    CASE value.kind = "string" -> value.text # <<>>
      [] value.kind = "boolean" -> value.bool
      [] OTHER -> FALSE

Digits == {"0", "1", "2", "3", "4", "5", "6", "7", "8", "9"}

InfinityText == <<"I", "n", "f", "i", "n", "i", "t", "y">>

\* Number(value): the kind of number it gives (digit strings stand for the numerals)
ToNumber(value) ==
    CASE value.kind = "boolean" -> "finite"
      [] value.kind = "undefined" -> "NaN"
      [] OTHER ->
            LET text == Trim(value.text)
            IN  IF \A i \in 1..Len(text) : text[i] \in Digits THEN "finite"
                ELSE IF text = InfinityText THEN "Infinity"
                ELSE "NaN"

\* isNaN(Number(value))
IsNaN(value) == ToNumber(value) = "NaN"

\* the fields of all sections, in the order forEach visits them
RECURSIVE AllFields(_)
AllFields(sections) ==
    IF sections = <<>> THEN <<>> ELSE Head(sections).fields \o AllFields(Tail(sections))

NoMessage == [label |-> "", text |-> ""]

\* `${field.label} is required`
RequiredMessage(field) == [label |-> field.label, text |-> " is required"]

\* `${field.label} must be a valid number`
NumberMessage(field) == [label |-> field.label, text |-> " must be a valid number"]

\* a validateForm that does not leave the label fields out
validateForm_fieldError_Labels(field, value) ==
    IF field.required
    THEN IF ~Truthy(value) \/ value = JsString(<<>>)
            \/ (value.kind = "string" /\ Trim(value.text) = <<>>)
         THEN RequiredMessage(field)
         ELSE IF field.type = "number" /\ IsNaN(value)
              THEN NumberMessage(field)
              ELSE NoMessage
    ELSE NoMessage

\* a validateForm that does not trim: a blank string counts as a value
validateForm_fieldError_NoTrim(field, value) ==
    IF field.type # "label" /\ field.required
    THEN IF ~Truthy(value) \/ value = JsString(<<>>)
         THEN RequiredMessage(field)
         ELSE IF field.type = "number" /\ IsNaN(value)
              THEN NumberMessage(field)
              ELSE NoMessage
    ELSE NoMessage

\* what the body of validateForm's inner forEach assigns to newErrors[field.id];
\* NoMessage when it assigns nothing
validateForm_fieldError(field, value) ==
    IF field.type # "label" /\ field.required
    THEN IF ~Truthy(value) \/ value = JsString(<<>>)
            \/ (value.kind = "string" /\ Trim(value.text) = <<>>)
         THEN RequiredMessage(field)
         ELSE IF field.type = "number" /\ IsNaN(value)
              THEN NumberMessage(field)
              ELSE NoMessage
    ELSE NoMessage

\* newErrors of validateForm: the last assignment to a key stays
validateForm_newErrors(template, vs) ==
    LET fields == AllFields(template.sections)
        hit == {i \in 1..Len(fields) :
                  validateForm_fieldError(fields[i], ValueOf(vs, fields[i].id)) # NoMessage}
        last(id) == CHOOSE i \in hit :
                      /\ fields[i].id = id
                      /\ \A k \in hit : fields[k].id = id => k <= i
    IN  [id \in {fields[i].id : i \in hit} |->
            validateForm_fieldError(fields[last(id)], ValueOf(vs, id))]

\* validateForm's return value
validateForm(template, vs) == DOMAIN validateForm_newErrors(template, vs) = {}

isFormValid(template, vs) ==
    LET fields == AllFields(template.sections)
    IN  \A i \in 1..Len(fields) :
            \/ fields[i].type = "label"
            \/ ~fields[i].required
            \/ LET value == ValueOf(vs, fields[i].id)
               IN  /\ Truthy(value)
                   /\ value # JsString(<<>>)
                   /\ (fields[i].type # "number" \/ ~IsNaN(value))

\* { ...prev, [fieldId]: value }
SetKey(record, key, value) ==
    [k \in DOMAIN record \cup {key} |-> IF k = key THEN value ELSE record[k]]

InFiller == pc = "ready" /\ currentView = "filler"

HandleFieldChange(fieldId, value) ==
    /\ InFiller
    /\ values' = SetKey(values, fieldId, value)
    /\ errors' = IF fieldId \in DOMAIN errors /\ errors[fieldId] # NoMessage
                 THEN SetKey(errors, fieldId, NoMessage)
                 ELSE errors
    /\ lastOp' = "handleFieldChange"
    /\ UNCHANGED <<pc, now, providerVars, contentVars, builderVars>>

Abc == <<"a", "b", "c">>

FortyTwo == <<"4", "2">>

\* what handleFieldChange is handed for a field: the strings of an input or
\* a select (the empty one after a deletion or for 'Select an option...'),
\* the state of a checkbox; a label has no input, its entry and a blank
\* string for a number or an enum field are set by a caller only
ValueInputs(field) ==
    CASE field.type = "boolean" -> {JsBoolean(TRUE), JsBoolean(FALSE)}
      [] field.type = "number" ->
            {JsString(<<>>), JsString(<<" ">>), JsString(Abc), JsString(FortyTwo),
             JsString(InfinityText)}
      [] field.type = "label" -> {JsString(Abc)}
      [] OTHER -> {JsString(<<>>), JsString(<<" ">>), JsString(Abc)}

CallHandleFieldChange ==
    \E i \in 1..Len(AllFields(selectedTemplate.sections)) :
        LET field == AllFields(selectedTemplate.sections)[i]
        IN  \E value \in ValueInputs(field) : HandleFieldChange(field.id, value)

\* validateForm() called on the values as they are
CallValidateForm ==
    /\ InFiller
    /\ errors' = validateForm_newErrors(selectedTemplate, values)
    /\ lastOp' = "validateForm"
    /\ UNCHANGED <<pc, now, providerVars, contentVars, builderVars, values>>

\* a handleSubmit that stores the values whatever validateForm returns
HandleSubmit_Unchecked ==
    /\ InFiller
    /\ isFormValid(selectedTemplate, values)
    /\ submissions = <<>>
    /\ saveSubmission([templateId |-> selectedTemplate.id, data |-> values,
                       submittedAt |-> now])
    /\ values' = NoValues
    /\ errors' = NoValues
    /\ lastOp' = "handleSubmit"
    /\ UNCHANGED <<pc, now, templates, contentVars, builderVars>>
    /\ Rendered

\* the Submit Form button, disabled unless isFormValid(); the form is followed
\* up to its first stored submission (later ones meet the same cleared form)
HandleSubmit ==
    /\ InFiller
    /\ isFormValid(selectedTemplate, values)
    /\ submissions = <<>>
    /\ IF ~validateForm(selectedTemplate, values)
       THEN /\ errors' = validateForm_newErrors(selectedTemplate, values)
            /\ UNCHANGED <<submissions, storage, values>>
       ELSE /\ saveSubmission([templateId |-> selectedTemplate.id, data |-> values,
                                submittedAt |-> now])
            /\ values' = NoValues
            /\ errors' = NoValues
    /\ lastOp' = "handleSubmit"
    /\ UNCHANGED <<pc, now, templates, contentVars, builderVars>>
    /\ Rendered

\* the kinds of field a filled template is made of: a type and a required flag
FillerKinds ==
    << <<"label", TRUE>>, <<"label", FALSE>>, <<"text", TRUE>>, <<"text", FALSE>>,
       <<"number", TRUE>>, <<"number", FALSE>>, <<"boolean", TRUE>>, <<"boolean", FALSE>>,
       <<"enum", TRUE>>, <<"enum", FALSE>> >>

\* the k-th field of a filled template
FillerField(k, type, required) ==
    [SampleField EXCEPT !.id = 100 + k, !.type = type, !.required = required,
                        !.labelStyle = IF type = "label" THEN "h2" ELSE Undefined,
                        !.options = IF type = "enum" THEN Options(<<Abc>>) ELSE NoOptions,
                        !.value = IF type = "boolean" THEN JsFalse ELSE ""]

\* the lists of n fields of different kinds, in the order of FillerKinds:
\* validateForm and isFormValid look at each field on its own, so neither the
\* order of the kinds nor a second field of a kind adds a case
FillerFieldLists(n) ==
    {[k \in 1..n |-> FillerField(k, FillerKinds[pick[k]][1], FillerKinds[pick[k]][2])] :
        pick \in {p \in [1..n -> 1..Len(FillerKinds)] : \A i \in 1..(n - 1) : p[i] < p[i + 1]}}

\* stored templates of one section with 1..MaxFillerFields fields
FillerTemplates ==
    UNION {{[RepoTemplate(0, Intake) EXCEPT !.sections = <<[SampleSection EXCEPT !.fields = fields]>>] :
              fields \in FillerFieldLists(n)} : n \in 1..MaxFillerFields}

\* FormFiller mounted on a saved template
InitFiller ==
    /\ pc = "ready"
    /\ now = StartClock
    /\ selectedTemplate \in FillerTemplates
    /\ templates = <<selectedTemplate>>
    /\ submissions = <<>>
    /\ closure = [templates |-> templates, submissions |-> submissions]
    /\ unrendered = 0
    /\ storage = [formTemplates |-> StringifyTemplates(templates), formSubmissions |-> Absent]
    /\ currentView = "filler"
    /\ currentTemplate = NoTemplate
    /\ originalTemplate = NoTemplate
    /\ isDirty = FALSE
    /\ isAlertOpen = FALSE
    /\ values = NoValues
    /\ errors = NoValues
    /\ edits = 0
    /\ lastOp = "fillForm"

NextFiller ==
    \/ CallHandleFieldChange
    \/ CallValidateForm
    \/ HandleSubmit

SpecFiller == InitFiller /\ [][NextFiller]_vars

----------------------------------------------------------------------------
(* Claims about the provider, under SpecRepo *)

\* C1: saving a template whose id is not saved while 5 templates are saved
\* leaves the saved collection exactly the 5 it was, in memory and in storage.
C1_SixthSaveKeepsCollection ==
    [][\A t \in RepoTemplates(closure.templates) :
          ( /\ SaveTemplateCall(t)
            /\ templates = closure.templates
            /\ Len(templates) = TemplateLimit
            /\ t.id \notin Ids(templates) )
          => /\ templates' = templates
             /\ storage'.formTemplates = StringifyTemplates(templates)]_vars

\* C2: the saved collection never holds more than 5 templates, neither the
\* state (as set, and as rendered) nor the stored blob.
C2_AtMostFive ==
    /\ Len(templates) <= TemplateLimit
    /\ Len(closure.templates) <= TemplateLimit
    /\ Len(storage.formTemplates.text) <= TemplateLimit

\* a sixth template was saved on top of five
C2_Witness ==
    /\ lastOp = "saveTemplate"
    /\ Len(templates) = TemplateLimit
    /\ \E i \in 1..Len(templates) : templates[i].id > TemplateLimit

\* C9: after deleteTemplate(templateId) no submission has that templateId,
\* neither in the state nor in the stored blob.
C9_DeleteCascades ==
    [][\A id \in RepoIds :
          DeleteTemplateCall(id)
          => /\ \A i \in 1..Len(submissions') : submissions'[i].templateId # id
             /\ \A i \in 1..Len(storage'.formSubmissions.text) :
                   storage'.formSubmissions.text[i].templateId # id]_vars

\* C10: once saveTemplate or deleteTemplate has completed, the blob under
\* 'formTemplates' is the serialization of the template collection in memory.
C10_WriteThrough ==
    lastOp \in {"saveTemplate", "deleteTemplate"}
    => storage.formTemplates = StringifyTemplates(templates)

\* two calls were made before a render, the second one a save
C10_Witness ==
    /\ lastOp = "saveTemplate"
    /\ unrendered = 2
    /\ templates # closure.templates
    /\ storage.formTemplates = StringifyTemplates(templates)

\* C11: saving a template whose id is saved replaces that entry where it is:
\* the length of the collection and the position of the entry stay, and every
\* other entry is as it was. (A saveTemplate call on the rendered collection
\* that brings no new id is a save of a saved id.)
C11_UpsertReplacesInPlace ==
    [][( /\ lastOp' = "saveTemplate"
         /\ unrendered' = unrendered + 1
         /\ templates = closure.templates
         /\ Ids(templates') \subseteq Ids(templates) )
       => /\ Len(templates') = Len(templates)
          /\ \E k \in 1..Len(templates) :
                /\ templates'[k].id = templates[k].id
                /\ templates'[k] \in {[t EXCEPT !.updatedAt = now] :
                                        t \in RepoTemplates(closure.templates)}
                /\ \A i \in 1..Len(templates) : i # k => templates'[i] = templates[i]]_vars

\* the third of five stored templates was saved again: the others are as stored
C11_Witness ==
    /\ lastOp = "saveTemplate"
    /\ Len(templates) = TemplateLimit
    /\ templates[3].id = 3
    /\ templates[3].updatedAt = now
    /\ \A i \in 1..TemplateLimit : i # 3 => templates[i] = StoredTemplates(TemplateLimit)[i]

----------------------------------------------------------------------------
(* Claims about the edit session, under Spec *)

\* name, sections and fields in order: a template without id and timestamps
Content(t) == [name |-> t.name, sections |-> t.sections]

InSession == pc = "ready" /\ currentView = "builder"

\* a commit is attempted: the Save Template button, or Save & Exit
CommitAttempt == HandleSave \/ SaveAndExit

\* C3: a commit attempted on an invalid working copy changes neither the
\* saved collection nor storage nor the working copy, and the builder stays open.
C3_InvalidCommitFails ==
    [][(InSession /\ ~isTemplateValid(currentTemplate) /\ CommitAttempt)
       => /\ templates' = templates
          /\ storage' = storage
          /\ currentTemplate' = currentTemplate
          /\ currentView' = "builder"]_vars

\* C4: Save & Exit leaves the builder only if the working copy was committed,
\* that is only if it was valid and is now the saved entry of its id.
C4_SaveAndExitLeavesOnSuccess ==
    [][(SaveAndExit /\ currentView' # "builder")
       => /\ isTemplateValid(currentTemplate)
          /\ \E i \in 1..Len(templates') :
                Content(templates'[i]) = Content(currentTemplate)]_vars

C7_BackAsksIffDirty ==
    [][HandleBack
       => /\ isDirty => /\ isAlertOpen'
                        /\ currentView' = "builder"
                        /\ currentTemplate' = currentTemplate
                        /\ originalTemplate' = originalTemplate
          /\ ~isDirty => /\ ~isAlertOpen'
                         /\ currentView' = "list"
          /\ templates' = templates
          /\ storage' = storage]_vars

\* Back was pressed on a changed working copy
C7_Witness ==
    /\ lastOp = "handleBack"
    /\ InSession
    /\ isAlertOpen
    /\ Content(currentTemplate) # Content(originalTemplate)

\* C8: a step taken while the builder is open that is not a commit of a valid
\* working copy leaves the saved collection and storage as they were.
C8_OnlyCommitWrites ==
    [][(InSession /\ ~(isTemplateValid(currentTemplate) /\ CommitAttempt))
       => /\ templates' = templates
          /\ storage' = storage]_vars

\* a changed session on a saved template was discarded: the saved entry is as opened
C8_Witness ==
    /\ lastOp = "discardAndExit"
    /\ currentView = "list"
    /\ edits > 0
    /\ \E i \in 1..Len(templates) : templates[i] = selectedTemplate
    /\ storage.formTemplates = StringifyTemplates(templates)

----------------------------------------------------------------------------
(* Claims about the builder's updaters, under SpecBuilder *)

FieldSpecs == BareSpecs \cup SidebarSpecs(now)

\* C12: addFieldToSection called with a section id that no section of the
\* working copy has (a working copy of no section included) leaves the
\* working copy as it is: no section is made, no field is added.
C12_AddFieldMakesNoSection ==
    [][lastOp' = "addFieldToSection: no section" => currentTemplate' = currentTemplate]_vars

\* addFieldToSection was called on a working copy of no section
C12_Witness ==
    /\ lastOp = "addFieldToSection: no section"
    /\ currentTemplate.sections = <<>>

\* C13: a click on a field type while the working copy has no section leaves
\* exactly one section, holding exactly the added field, and nothing throws.
C13_SidebarAddMakesSection ==
    [][\A type \in FieldTypes :
          (ClickFieldType(type) /\ currentTemplate.sections = <<>>)
          => /\ pc' = "ready"
             /\ Len(currentTemplate'.sections) = 1
             /\ Len(currentTemplate'.sections[1].fields) = 1
             /\ \E answer \in PromptAnswers :
                   /\ handleAddField(type, now, answer) # <<>>
                   /\ currentTemplate'.sections[1].fields[1]
                        = completeField(handleAddField(type, now, answer), now)]_vars

\* the first edit was a click in the sidebar and the only section was made by it
C13_Witness ==
    /\ lastOp = "onAddField"
    /\ edits = 1
    /\ Len(currentTemplate.sections) = 1
    /\ currentTemplate.sections[1].title = "New Section"
    /\ Len(currentTemplate.sections[1].fields) = 1

\* C14: addFieldToSection appends the completed field at the end of the
\* named section and leaves the other fields and sections; a spec without
\* `required` gives required = TRUE unless the type is label, and a label spec
\* without `labelStyle` gives labelStyle = h2.
C14_AddFieldFillsDefaults ==
    [][\A sectionId \in SectionIdInputs, field \in FieldSpecs :
          ( /\ AddFieldToSectionCall(sectionId, field)
            /\ sectionId \in Ids(currentTemplate.sections) )
          => LET k == FindIndex(currentTemplate.sections, sectionId)
                 before == currentTemplate.sections[k].fields
                 after == currentTemplate'.sections[k].fields
                 added == after[Len(after)]
             IN  /\ Len(after) = Len(before) + 1
                 /\ SubSeq(after, 1, Len(before)) = before
                 /\ added.type = field.type
                 /\ "required" \notin DOMAIN field => added.required = (added.type # "label")
                 /\ (added.type = "label" /\ "labelStyle" \notin DOMAIN field)
                       => added.labelStyle = "h2"
                 /\ \A i \in 1..Len(currentTemplate.sections) :
                       i # k => currentTemplate'.sections[i] = currentTemplate.sections[i]]_vars

\* C15: a drop whose source index or destination index is not a position of
\* the section's field list changes nothing and does not throw.
C15_OutOfBoundsDropIsNoOp ==
    [][\A sectionId \in Ids(currentTemplate.sections) :
          \A sourceIndex \in IndexInputs(currentTemplate, sectionId),
             destinationIndex \in IndexInputs(currentTemplate, sectionId) :
              ( /\ DragEnd(sectionId, sourceIndex, sectionId, destinationIndex)
                /\ \/ sourceIndex \notin InBounds(currentTemplate, sectionId)
                   \/ destinationIndex \notin InBounds(currentTemplate, sectionId) )
              => /\ currentTemplate' = currentTemplate
                 /\ pc' = "ready"]_vars

\* C16: in every working copy, for every section and positions i # j of its
\* field list, the move of i to j followed by the move of j to i gives the
\* working copy back.
C16_ReorderRoundTrip ==
    pc = "ready" =>
        \A sectionId \in Ids(currentTemplate.sections) :
            \A i \in InBounds(currentTemplate, sectionId), j \in InBounds(currentTemplate, sectionId) :
                i # j =>
                    handleDragEnd(
                        handleDragEnd(currentTemplate, sectionId, i, sectionId, j),
                        sectionId, j, sectionId, i) = currentTemplate

\* the first of three fields was dropped on the last position
C16_Witness ==
    /\ pc = "ready"
    /\ lastOp = "handleDragEnd"
    /\ \E k \in 1..Len(currentTemplate.sections) :
          LET fields == currentTemplate.sections[k].fields
          IN  /\ Len(fields) = 3
              /\ fields[3] = BuilderField(1, 1)
              /\ fields[1] = BuilderField(1, 2)

\* C17: a drop whose source section and destination section differ leaves
\* the working copy as it is.
C17_CrossSectionDropIsNoOp ==
    [][lastOp' = "handleDragEnd: other section"
          => /\ currentTemplate' = currentTemplate
             /\ pc' = "ready"]_vars

\* a field of the first section was dropped on the second section
C17_Witness ==
    /\ lastOp = "handleDragEnd: other section"
    /\ Len(currentTemplate.sections) = 2
    /\ Len(currentTemplate.sections[1].fields) > 0
    /\ Len(currentTemplate.sections[2].fields) > 0

\* C25: in every working copy a field of type enum has options, and the list
\* of options is not empty.
C25_EnumHasOptions ==
    InSession
    => \A i \in 1..Len(currentTemplate.sections) :
          \A j \in 1..Len(currentTemplate.sections[i].fields) :
              LET field == currentTemplate.sections[i].fields[j]
              IN  field.type = "enum"
                  => /\ field.options.defined
                     /\ Len(field.options.list) > 0

\* the options input of an enum field was cleared: one option, the empty string
C25_Witness ==
    /\ InSession
    /\ lastOp = "editOptions"
    /\ \E i \in 1..Len(currentTemplate.sections) :
          \E j \in 1..Len(currentTemplate.sections[i].fields) :
              /\ currentTemplate.sections[i].fields[j].type = "enum"
              /\ currentTemplate.sections[i].fields[j].options = Options(<< <<>> >>)

----------------------------------------------------------------------------
(* Claims about reordering in a session, under SpecReorder *)

\* the same elements, each as often
IsPermutation(a, b) ==
    /\ Len(a) = Len(b)
    /\ \A i \in 1..Len(a) :
          Cardinality({k \in 1..Len(a) : a[k] = a[i]}) = Cardinality({k \in 1..Len(b) : b[k] = a[i]})

\* C30: a drop leaves the name and the number of sections, and there is a
\* section such that every other section is as it was and the fields of
\* this one are the fields it had, in some order, none of them undefined;
\* and the render after it does not throw.
C30_ReorderPermutes ==
    [][HandleDragEnd
       => /\ currentTemplate'.name = currentTemplate.name
          /\ Len(currentTemplate'.sections) = Len(currentTemplate.sections)
          /\ \E k \in 1..Len(currentTemplate.sections) :
                /\ \A i \in 1..Len(currentTemplate.sections) :
                      i # k => currentTemplate'.sections[i] = currentTemplate.sections[i]
                /\ currentTemplate'.sections[k].id = currentTemplate.sections[k].id
                /\ currentTemplate'.sections[k].title = currentTemplate.sections[k].title
                /\ IsPermutation(currentTemplate'.sections[k].fields,
                                 currentTemplate.sections[k].fields)
          /\ ~RenderThrows(currentTemplate')
          /\ pc' = "ready"]_vars

----------------------------------------------------------------------------
(* Claims about the form filler, under SpecFiller *)

FilledFields == AllFields(selectedTemplate.sections)

\* the ids of the fields of the filled template that are no labels
InputIds == {FilledFields[i].id : i \in {k \in 1..Len(FilledFields) : FilledFields[k].type # "label"}}

\* the entries validateForm left in `errors`
ErrorIds == {id \in DOMAIN errors : errors[id] # NoMessage}

\* C18: validateForm on the empty value map, for a template whose fields other
\* than labels are all required, leaves an error for each of these fields;
\* and for no value map does it leave an error for a label field, required or not.
C18_EmptyMapErrors ==
    (InFiller /\ lastOp = "validateForm")
    => /\ ( /\ values = NoValues
            /\ \A i \in 1..Len(FilledFields) :
                  FilledFields[i].type # "label" => FilledFields[i].required )
          => ErrorIds = InputIds
       /\ \A i \in 1..Len(FilledFields) :
             FilledFields[i].type = "label" => FilledFields[i].id \notin DOMAIN errors

\* the empty value map was validated for a required label and a required input
C18_Witness ==
    /\ InFiller
    /\ lastOp = "validateForm"
    /\ values = NoValues
    /\ Len(FilledFields) = 2
    /\ FilledFields[1].type = "label" /\ FilledFields[1].required
    /\ FilledFields[2].type = "number" /\ FilledFields[2].required
    /\ ErrorIds = {FilledFields[2].id}

\* C19: a required boolean field is in error after validateForm exactly if it
\* has no entry in the value map, and a template of one required boolean field
\* whose entry is set, to true or to false, can be submitted.
C19_ExplicitFalseIsFilled ==
    InFiller
    => \A i \in 1..Len(FilledFields) :
          (FilledFields[i].type = "boolean" /\ FilledFields[i].required)
          => /\ lastOp = "validateForm"
                => (FilledFields[i].id \in ErrorIds <=> FilledFields[i].id \notin DOMAIN values)
             /\ (Len(FilledFields) = 1 /\ FilledFields[i].id \in DOMAIN values)
                => isFormValid(selectedTemplate, values)

\* a value that is there: a string that is not blank
Present(value) == value.kind = "string" /\ Trim(value.text) # <<>>

\* C20: a number field whose value is present is in error after validateForm
\* exactly if the value is no finite number, required or not.
C20_NumberCheckedWhenPresent ==
    (InFiller /\ lastOp = "validateForm")
    => \A i \in 1..Len(FilledFields) :
          (FilledFields[i].type = "number" /\ Present(ValueOf(values, FilledFields[i].id)))
          => (FilledFields[i].id \in ErrorIds
                <=> ToNumber(ValueOf(values, FilledFields[i].id)) # "finite")

\* a value that is not there: no entry, or a string that is empty or blank
Missing(value) == value = JsUndefined \/ (value.kind = "string" /\ Trim(value.text) = <<>>)

\* C21: after validateForm a required field that is no label and whose value
\* is absent, the empty string or a blank string is in error, whatever its
\* type is; a field that is not required and has no entry is not in error.
C21_MissingRequiredIsInError ==
    (InFiller /\ lastOp = "validateForm")
    => \A i \in 1..Len(FilledFields) :
          LET field == FilledFields[i]
          IN  /\ (field.type # "label" /\ field.required /\ Missing(ValueOf(values, field.id)))
                    => field.id \in ErrorIds
              /\ (~field.required /\ field.id \notin DOMAIN values)
                    => field.id \notin ErrorIds

\* a required enum field holding a blank string is in error next to a field
\* that is not required and has no entry
C21_Witness ==
    /\ InFiller
    /\ lastOp = "validateForm"
    /\ \E i \in 1..Len(FilledFields), k \in 1..Len(FilledFields) :
          /\ FilledFields[i].type = "enum" /\ FilledFields[i].required
          /\ ValueOf(values, FilledFields[i].id) = JsString(<<" ">>)
          /\ FilledFields[i].id \in ErrorIds
          /\ FilledFields[k].type = "number" /\ ~FilledFields[k].required
          /\ FilledFields[k].id \notin DOMAIN values
          /\ FilledFields[k].id \notin ErrorIds

\* C22: a submit whose validation leaves errors is refused: the submissions,
\* storage and the entered values stay as they are; and the submissions grow
\* only by a submit whose validation leaves no error.
C22_InvalidSubmitIsRefused ==
    [][/\ (HandleSubmit /\ ~validateForm(selectedTemplate, values))
          => /\ submissions' = submissions
             /\ storage' = storage
             /\ values' = values
             /\ errors' = validateForm_newErrors(selectedTemplate, values)
       /\ submissions' # submissions
          => /\ validateForm(selectedTemplate, values)
             /\ Len(submissions') = Len(submissions) + 1
             /\ submissions'[Len(submissions')].data = values]_vars

\* Submit Form was pressed on a blank text and refused
C22_Witness ==
    /\ InFiller
    /\ lastOp = "handleSubmit"
    /\ submissions = <<>>
    /\ storage.formSubmissions = Absent
    /\ values # NoValues
    /\ ErrorIds # {}

\* C29: for the filled template and every value map, isFormValid() is true
\* exactly if validateForm() leaves no error, so that a press on the enabled
\* Submit Form button is never refused.
C29_ButtonAgreesWithValidation ==
    /\ InFiller
          => (isFormValid(selectedTemplate, values) <=> validateForm(selectedTemplate, values))
    /\ (InFiller /\ lastOp = "handleSubmit") => ErrorIds = {}

----------------------------------------------------------------------------
(* Claims about the submission collection, under SpecSubmissions *)

\* C26: a step of the running application taken on the rendered collection
\* leaves every stored submission where it is and as it is, unless the step
\* deletes the template the submission names; a submit adds exactly one
\* record, at the end; no other step adds one.
C26_SubmissionsAppendOnly ==
    [][(pc = "ready" /\ submissions = closure.submissions)
       => /\ \A i \in 1..Len(submissions) :
                \/ i <= Len(submissions') /\ submissions'[i] = submissions[i]
                \/ /\ submissions[i].templateId \in Ids(templates)
                   /\ submissions[i].templateId \notin Ids(templates')
          /\ (\E id \in Ids(closure.templates) : SaveSubmissionCall(id, MaxAppended))
                => Len(submissions') = Len(submissions) + 1
          /\ Len(submissions') > Len(submissions) => lastOp' = "saveSubmission"
          /\ storage'.formSubmissions.kind = "json"
                => SubSeq(storage'.formSubmissions.text, 1, Len(submissions)) = submissions]_vars

\* a second form was submitted after the stored one and a template was saved again
C26_Witness ==
    /\ pc = "ready"
    /\ lastOp = "saveTemplate"
    /\ Len(submissions) = 2
    /\ submissions[1] = StoredSubmission
    /\ submissions[2].templateId = 1
    /\ storage.formSubmissions = StringifySubmissions(submissions)

----------------------------------------------------------------------------
(* Claims about startup, under SpecRepo *)

\* C23: after the mount effect the application runs, and a collection whose
\* stored string is absent or is no JSON text is the empty collection.
C23_StartupNeverFails ==
    lastOp = "load"
    => /\ pc = "ready"
       /\ storage.formTemplates.kind # "json" => templates = <<>>
       /\ storage.formSubmissions.kind # "json" => submissions = <<>>

----------------------------------------------------------------------------
(* Claims about the working copy and the saved collection, under Spec *)

\* no two elements of a list of sections, or of fields, have the same id
UniqueIds(list) ==
    \A i \in 1..Len(list), k \in 1..Len(list) : list[i].id = list[k].id => i = k

\* C24: in every working copy no two sections share an id and no two fields
\* of one section share an id, also when two of them were made at the same
\* clock reading.
C24_IdsAreUnique ==
    InSession
    => /\ UniqueIds(currentTemplate.sections)
       /\ \A i \in 1..Len(currentTemplate.sections) :
             UniqueIds(currentTemplate.sections[i].fields)

\* the valid-to-save condition, on a stored template as on one in memory
ValidToSave(t) ==
    /\ \E k \in 1..Len(t.name) : t.name[k] # " "
    /\ t.sections # <<>>
    /\ \E i \in 1..Len(t.sections) : t.sections[i].fields # <<>>

\* C27: every template of the saved collection, in memory and in storage,
\* has a name that is not blank, a section, and a section with a field.
C27_SavedTemplatesAreValid ==
    /\ \A i \in 1..Len(templates) : ValidToSave(templates[i])
    /\ \A i \in 1..Len(storage.formTemplates.text) : ValidToSave(storage.formTemplates.text[i])

\* the collection started empty and holds a template built and saved in this run
C27_Witness ==
    /\ currentView = "list"
    /\ lastOp \in {"handleSave", "saveAndExit"}
    /\ Len(templates) > 0
    /\ \A i \in 1..Len(templates) : templates[i].createdAt >= StartClock
    /\ storage.formTemplates = StringifyTemplates(templates)

----------------------------------------------------------------------------
(* Claims about the limit of the collection, under SpecLimit *)

\* C28: a save made through the builder leaves every saved template in the
\* collection, and a save that appends finds fewer than 5 templates saved:
\* newTemplates never grows past 5, so slice(-5) is never reached.
C28_SaveNeverEvicts ==
    [][CommitAttempt
       => /\ \A i \in 1..Len(templates) : templates[i].id \in Ids(templates')
          /\ (isTemplateValid(currentTemplate) /\ currentTemplate.id \notin Ids(closure.templates))
                => Len(closure.templates) < TemplateLimit]_vars

\* a template made in this run was saved as the fifth, the four stored ones are there
C28_Witness ==
    /\ lastOp \in {"handleSave", "saveAndExit"}
    /\ Len(templates) = TemplateLimit
    /\ templates[TemplateLimit].createdAt = StartClock
    /\ \A i \in 1..(TemplateLimit - 1) : templates[i].createdAt < StartClock

====
